---------------------------- MODULE Spec2Model ----------------------------
(***************************************************************************)
(* A model of the CRM GraphQL mutations of crm/schema.py: CreateCustomer,  *)
(* BulkCreateCustomers, CreateProduct and CreateOrder, over a relational   *)
(* store of customers, products and orders.                                *)
(*                                                                         *)
(* Strings that the code only copies (names, e-mails, messages) are TLA+   *)
(* strings.  A phone number, which the code matches against a regular      *)
(* expression, is a sequence of one-character strings.  A Decimal amount   *)
(* is an integer number of currency units.                                 *)
(***************************************************************************)
EXTENDS Integers, Sequences, FiniteSets, TLC

VARIABLES
    customers,    \* the committed Customer table, in insertion order
    products,     \* the committed Product table; a product's id is its index
    orders,       \* the committed Order table, each with its linked products
    emailUnique,  \* whether the Customer table declares email unique
    call,         \* the request being answered, Idle between requests
    procs         \* the concurrent requests of SpecConc

vars == <<customers, products, orders, emailUnique, call, procs>>

-----------------------------------------------------------------------------
(* Bounds of the model.                                                    *)

MaxBatch == 3

-----------------------------------------------------------------------------
(* Values.                                                                 *)

\* Python's None for an optional phone (a one-element sequence that no
\* phone number, made of single characters, can equal).
None == <<"<None>">>

\* Python truthiness of an optional string: None and "" are falsy.
Truthy(s) == s # None /\ s # <<>>

\* `phone or ""`
OrEmpty(s) == IF Truthy(s) THEN s ELSE <<>>

Digits == {"0", "1", "2", "3", "4", "5", "6", "7", "8", "9"}

MinDigits == 7
MaxDigits == 15
AreaLen == 3
ExchangeLen == 3
LineLen == 4

AllDigits(s) == \A i \in DOMAIN s : s[i] \in Digits

\* A mutant of IsInternational: the upper bound is off by one.
IsInternationalLong(s) ==
    LET d == IF s # <<>> /\ Head(s) = "+" THEN Tail(s) ELSE s
    IN  Len(d) >= MinDigits /\ Len(d) <= MaxDigits + 1 /\ AllDigits(d)

\* ^\+?\d{7,15}   (the part before the end anchor)
IsInternational(s) ==
    LET d == IF s # <<>> /\ Head(s) = "+" THEN Tail(s) ELSE s
    IN  Len(d) >= MinDigits /\ Len(d) <= MaxDigits /\ AllDigits(d)

\* ^\d{3}-\d{3}-\d{4}   (the part before the end anchor)
IsDashed(s) ==
    /\ Len(s) = AreaLen + 1 + ExchangeLen + 1 + LineLen
    /\ AllDigits(SubSeq(s, 1, AreaLen))
    /\ s[AreaLen + 1] = "-"
    /\ AllDigits(SubSeq(s, AreaLen + 2, AreaLen + 1 + ExchangeLen))
    /\ s[AreaLen + ExchangeLen + 2] = "-"
    /\ AllDigits(SubSeq(s, AreaLen + ExchangeLen + 3, Len(s)))

\* Python's `$` without re.MULTILINE: the end of the string, or just before
\* a newline that ends the string.
BeforeEnd(s) ==
    {s} \cup (IF s # <<>> /\ s[Len(s)] = "\n"
              THEN {SubSeq(s, 1, Len(s) - 1)} ELSE {})

\* re.match(r"^\+?\d{7,15}$|^\d{3}-\d{3}-\d{4}$", phone)
PhoneMatches(s) == \E t \in BeforeEnd(s) : IsInternational(t) \/ IsDashed(t)

\* The phone check of CreateCustomer: `phone and not re.match(...)`.
PhoneRejected(phone) == Truthy(phone) /\ ~PhoneMatches(phone)

-----------------------------------------------------------------------------
(* The Customer table.                                                     *)

EmailsOf(rows) == {rows[i].email : i \in DOMAIN rows}

\* A mutant of EmailExists: the filter names the wrong column.
EmailExistsByName(rows, email) == \E i \in DOMAIN rows : rows[i].name = email

\* Customer.objects.filter(email=email).exists()
EmailExists(rows, email) == email \in EmailsOf(rows)

\* The row Customer.objects.create(name=, email=, phone=phone or "") inserts.
CustomerRow(data) ==
    [name |-> data.name, email |-> data.email, phone |-> OrEmpty(data.phone)]

\* Whether the table refuses the insert of a row with this e-mail: the
\* uniqueness constraint of Customer.email, when the table declares one.
UniqueViolation(rows, email) == emailUnique /\ email \in EmailsOf(rows)

-----------------------------------------------------------------------------
(* Messages.                                                               *)

EmailExistsMsg == "Email already exists."
InvalidPhoneMsg == "Invalid phone format. Use +1234567890 or 123-456-7890"
CustomerCreatedMsg == "Customer created successfully"
NoCustomersMsg == "No customers provided"
IntegrityErrorText == "UNIQUE constraint failed: crm_customer.email"
StoreFaultText == "database error"
BrokenTransactionText ==
    "An error occurred in the current transaction. You can't execute queries until the end of the 'atomic' block."

DuplicateMsg(email) == "Email '" \o email \o "' already exists"
ErrorCreatingMsg(email, text) == "Error creating " \o email \o ": " \o text

Idle == [op |-> "idle"]


-----------------------------------------------------------------------------
(* Inputs.                                                                 *)

Names == {"", "Ann"}
Emails == {"", "a@x.com", "c@x.com"}

DigitRun(n) == [i \in 1..n |-> "1"]
DashedSample == <<"1", "2", "3", "-", "4", "5", "6", "-", "7", "8", "9", "0">>

\* Phones the format allows, and phones it does not.
ValidPhones ==
    { <<"+">> \o DigitRun(MinDigits),          \* +1111111
      DashedSample,                            \* 123-456-7890
      DigitRun(MinDigits) \o <<"\n">> }        \* 1111111 and a final newline
InvalidPhones ==
    { DigitRun(MinDigits - 1),                 \* too short
      DigitRun(MaxDigits + 1),                 \* too long
      <<"+">> \o DigitRun(MaxDigits + 1),
      SubSeq(DashedSample, 1, Len(DashedSample) - 1),
      DashedSample \o <<"1">>,
      <<"x">> \o DigitRun(MinDigits),
      <<"+", "+">> \o DigitRun(MinDigits),
      <<"\n">> }
Phones == {None, <<>>} \cup ValidPhones \cup InvalidPhones

\* The CustomerInput objects a client sends to createCustomer: every name
\* and e-mail without a phone, and every phone with one name and e-mail.
CustomerInputs ==
    [name : Names, email : Emails, phone : {None}]
        \cup [name : {"Ann"}, email : {"c@x.com"}, phone : Phones]

\* The candidates of a bulkCreateCustomers batch: two of them share an
\* e-mail; the bulk path applies no phone check.
Candidates ==
    { [name |-> "Ann", email |-> "a@x.com", phone |-> None],
      [name |-> "",    email |-> "a@x.com", phone |-> DigitRun(MinDigits - 1)],
      [name |-> "Ann", email |-> "c@x.com", phone |-> <<>>] }

SeqsUpTo(S, n) == UNION {[1..k -> S] : k \in 0..n}

Batches == SeqsUpTo(Candidates, MaxBatch)

\* A store fault injected into one bulk call: none, or one raised by the
\* existence query or by the insert of candidate `at`, or by the commit.
\* `aborts` says whether a fault of the existence query leaves the database
\* transaction aborted (as PostgreSQL does) or usable (as SQLite does).
NoFault == [site |-> "none", at |-> 0, aborts |-> FALSE]
FaultPlans(batch) ==
    {NoFault}
        \cup {[site |-> "create", at |-> i, aborts |-> TRUE] : i \in DOMAIN batch}
        \cup {[site |-> "exists", at |-> i, aborts |-> b] :
                 i \in DOMAIN batch, b \in BOOLEAN}
        \cup {[site |-> "commit", at |-> Len(batch) + 1, aborts |-> TRUE]}

-----------------------------------------------------------------------------
(* CreateCustomer.mutate                                                   *)

\* The outcome of the handler on the table `rows`: the response (or the
\* exception raised) and the table afterwards.
CreateCustomer(rows, input) ==
    IF EmailExists(rows, input.email)
    THEN [outcome |-> "raised", error |-> EmailExistsMsg,
          customers |-> <<>>, store |-> rows]
    ELSE IF PhoneRejected(input.phone)
    THEN [outcome |-> "raised", error |-> InvalidPhoneMsg,
          customers |-> <<>>, store |-> rows]
    ELSE IF UniqueViolation(rows, input.email)
    THEN [outcome |-> "raised", error |-> IntegrityErrorText,
          customers |-> <<>>, store |-> rows]
    ELSE [outcome |-> "ok", error |-> CustomerCreatedMsg,
          customers |-> <<CustomerRow(input)>>,
          store |-> Append(rows, CustomerRow(input))]

-----------------------------------------------------------------------------
(* BulkCreateCustomers.mutate                                              *)

\* The loop's state: the committed table the transaction started from, the
\* rows it has written, the two result lists, whether the transaction is
\* marked for rollback (Django's needs_rollback, or the database's aborted
\* transaction), and whether the injected fault was raised.
BulkStart(rows) ==
    [base |-> rows, written |-> <<>>, created |-> <<>>, errors |-> <<>>,
     broken |-> FALSE, faulted |-> FALSE]

\* A mutant of Visible: the existence query misses the transaction's own rows.
VisibleCommittedOnly(acc) == acc.base

\* The table as the queries of the transaction see it.
Visible(acc) == acc.base \o acc.written

\* A mutant of OnException: the handler swallows the exception.
OnExceptionSilent(acc, data, text, breaks) ==
    [acc EXCEPT !.broken = @ \/ breaks]

\* except Exception as e: errors.append(f"Error creating {email}: {e}")
\* `breaks`: the exception left the transaction marked for rollback.
OnException(acc, data, text, breaks) ==
    [acc EXCEPT !.errors = Append(@, ErrorCreatingMsg(data.email, text)),
                !.broken = @ \/ breaks]

\* A mutant of OnDuplicate: the duplicate is skipped without an error entry.
OnDuplicateSilent(acc, data) == acc

\* errors.append(f"Email '{data.email}' already exists"); continue
OnDuplicate(acc, data) ==
    [acc EXCEPT !.errors = Append(@, DuplicateMsg(data.email))]

\* One iteration of `for data in input`, with `site` the fault injected
\* into this iteration ("none" when there is none).
BulkIteration(acc, data, site, aborts) ==
    IF acc.broken
    THEN \* the existence query raises TransactionManagementError
         OnException(acc, data, BrokenTransactionText, TRUE)
    ELSE IF site = "exists"
    THEN [OnException(acc, data, StoreFaultText, aborts) EXCEPT !.faulted = TRUE]
    ELSE IF EmailExists(Visible(acc), data.email)
    THEN OnDuplicate(acc, data)
    ELSE IF site = "create"
    THEN \* save() raises inside mark_for_rollback_on_error
         [OnException(acc, data, StoreFaultText, TRUE) EXCEPT !.faulted = TRUE]
    ELSE IF UniqueViolation(acc.base \o acc.written, data.email)
    THEN OnException(acc, data, IntegrityErrorText, TRUE)
    ELSE [acc EXCEPT !.written = Append(@, CustomerRow(data)),
                     !.created = Append(@, CustomerRow(data))]

RECURSIVE BulkLoop(_, _, _, _)
BulkLoop(acc, batch, i, fault) ==
    IF i > Len(batch) THEN acc
    ELSE BulkLoop(BulkIteration(acc, batch[i],
                                IF fault.at = i THEN fault.site ELSE "none",
                                fault.aborts),
                  batch, i + 1, fault)

\* Leaving `with transaction.atomic()` without an exception: a transaction
\* marked for rollback is rolled back silently, any other is committed; a
\* commit that fails raises out of the handler and leaves nothing written.
BulkCreateCustomers(rows, batch, fault) ==
    IF batch = <<>>
    THEN [outcome |-> "ok", customers |-> <<>>, errors |-> <<NoCustomersMsg>>,
          store |-> rows, faulted |-> FALSE, rolledBack |-> FALSE]
    ELSE LET acc == BulkLoop(BulkStart(rows), batch, 1, fault)
         IN  IF acc.broken
             THEN [outcome |-> "ok", customers |-> acc.created,
                   errors |-> acc.errors, store |-> rows,
                   faulted |-> acc.faulted, rolledBack |-> TRUE]
             ELSE IF fault.site = "commit"
             THEN [outcome |-> "raised", customers |-> <<>>,
                   errors |-> <<StoreFaultText>>, store |-> rows,
                   faulted |-> TRUE, rolledBack |-> TRUE]
             ELSE [outcome |-> "ok", customers |-> acc.created,
                   errors |-> acc.errors, store |-> acc.base \o acc.written,
                   faulted |-> acc.faulted, rolledBack |-> FALSE]

-----------------------------------------------------------------------------
(* The customer service, one request at a time.                            *)

Init ==
    /\ customers = <<>>
    /\ products = <<>>
    /\ orders = <<>>
    /\ emailUnique \in BOOLEAN
    /\ call = Idle
    /\ procs = <<>>

CreateCustomerCall ==
    /\ call = Idle
    /\ \E input \in CustomerInputs :
         LET r == CreateCustomer(customers, input)
         IN  /\ customers' = r.store
             /\ call' = [op |-> "create_customer", input |-> input,
                         pre |-> customers, outcome |-> r.outcome,
                         error |-> r.error, customers |-> r.customers]
    /\ UNCHANGED <<products, orders, emailUnique, procs>>

BulkCreateCustomersCall ==
    /\ call = Idle
    /\ \E batch \in Batches :
         \E fault \in FaultPlans(batch) :
           LET r == BulkCreateCustomers(customers, batch, fault)
           IN  /\ customers' = r.store
               /\ call' = [op |-> "bulk_create_customers", input |-> batch,
                           fault |-> fault, pre |-> customers,
                           outcome |-> r.outcome, customers |-> r.customers,
                           errors |-> r.errors, faulted |-> r.faulted,
                           rolledBack |-> r.rolledBack]
    /\ UNCHANGED <<products, orders, emailUnique, procs>>

\* The response is handed to the client and the request ends.
Respond ==
    /\ call # Idle
    /\ call' = Idle
    /\ UNCHANGED <<customers, products, orders, emailUnique, procs>>

Next == CreateCustomerCall \/ BulkCreateCustomersCall \/ Respond

Spec == Init /\ [][Next]_vars

-----------------------------------------------------------------------------
(* Properties of the customer service.                                     *)

IsBulk == call.op = "bulk_create_customers"
IsCreateCustomer == call.op = "create_customer"

\* The elements of a set of indices, in increasing order.
InOrder(S) ==
    [k \in 1..Cardinality(S) |->
        CHOOSE i \in S : Cardinality({j \in S : j < i}) = k - 1]

RowsAt(batch, idx) == [k \in DOMAIN idx |-> CustomerRow(batch[idx[k]])]

Persisted(row) == \E i \in DOMAIN customers : customers[i] = row

\* C1: no two persisted customers have the same e-mail, whatever sequence
\* of createCustomer and bulkCreateCustomers calls was served, with
\* duplicates of stored customers and duplicates inside one batch.
C1_UniqueEmails ==
    \A i, j \in DOMAIN customers :
        customers[i].email = customers[j].email => i = j

\* A batch that repeats a stored e-mail and repeats a new e-mail inside
\* itself was served and created a customer.
C1_Witness ==
    /\ IsBulk
    /\ call.customers # <<>>
    /\ \E i \in DOMAIN call.input : call.input[i].email \in EmailsOf(call.pre)
    /\ \E i, j \in DOMAIN call.input :
          /\ i < j
          /\ call.input[i].email = call.input[j].email
          /\ call.input[i].email \notin EmailsOf(call.pre)

\* The candidates of a fault-free batch that are accepted: those whose
\* e-mail is neither stored before the call nor carried by an earlier one.
FirstCarriers(pre, batch) ==
    {i \in DOMAIN batch :
        /\ batch[i].email \notin EmailsOf(pre)
        /\ \A j \in 1..(i - 1) : batch[j].email # batch[i].email}

\* C2: in a bulk call without a persistence fault, the successes are the
\* rows of exactly the first carriers of each e-mail absent from the store,
\* in input order, the errors are one 'Email '<email>' already exists' per
\* other candidate, in input order, and the successes are what is added to
\* the store.
C2_AcceptedIffFirst ==
    (IsBulk /\ call.input # <<>> /\ ~call.faulted) =>
        LET acc == InOrder(FirstCarriers(call.pre, call.input))
            rej == InOrder(DOMAIN call.input \ FirstCarriers(call.pre, call.input))
        IN  /\ call.outcome = "ok"
            /\ call.customers = RowsAt(call.input, acc)
            /\ call.errors =
                  [k \in DOMAIN rej |-> DuplicateMsg(call.input[rej[k]].email)]
            /\ customers = call.pre \o call.customers

\* The batch A, B (A's e-mail), C on an empty store: two successes and the
\* one error naming the shared e-mail.
C2_Witness ==
    /\ IsBulk
    /\ call.pre = <<>>
    /\ ~call.faulted
    /\ Len(call.input) = 3
    /\ call.input[1].email = "a@x.com"
    /\ call.input[2].email = "a@x.com"
    /\ call.input[3].email = "c@x.com"
    /\ Len(call.customers) = 2
    /\ call.errors = <<"Email 'a@x.com' already exists">>

\* C3: when a store fault is raised by an insert or by the commit of a bulk
\* call, the store is what it was before the call and every customer in
\* the successes handed to the caller is persisted.
C3_FaultRevertsAll ==
    (IsBulk /\ call.faulted /\ call.fault.site \in {"create", "commit"}) =>
        /\ customers = call.pre
        /\ (call.outcome = "ok" =>
               \A k \in DOMAIN call.customers : Persisted(call.customers[k]))

\* The candidates the claim C4 expects to be accepted when the insert of
\* candidate f faults (f = 0: no fault): the first carriers, a faulted
\* candidate carrying nothing.
ExpectedAccepted(pre, batch, f) ==
    {i \in DOMAIN batch :
        /\ i # f
        /\ batch[i].email \notin EmailsOf(pre)
        /\ \A j \in 1..(i - 1) : batch[j].email = batch[i].email => j = f}

\* C4: the failure of one candidate, a duplicate or a fault raised by its
\* insert, never aborts the batch: it yields one error entry, and all other
\* valid, non-duplicate candidates, before and after it, are persisted and
\* returned as successes.
C4_FailureIsLocal ==
    (IsBulk /\ call.input # <<>> /\ call.fault.site \in {"none", "create"}) =>
        LET f == IF call.faulted THEN call.fault.at ELSE 0
            acc == InOrder(ExpectedAccepted(call.pre, call.input, f))
        IN  /\ call.outcome = "ok"
            /\ call.customers = RowsAt(call.input, acc)
            /\ customers = call.pre \o call.customers
            /\ Len(call.errors) = Len(call.input) - Len(acc)

\* The texts of the exceptions a candidate can raise.
FaultTexts == {IntegrityErrorText, StoreFaultText, BrokenTransactionText}

\* C6: a non-empty batch splits into the candidates behind the successes
\* and the candidates behind the errors, each candidate behind exactly one
\* entry, so the lengths add up to the input's, and a fault of one candidate
\* does not raise out of the call; an empty batch yields no success, the one
\* informational error, and no write.
C6_OneEntryPerCandidate ==
    IsBulk =>
        /\ (call.input = <<>> =>
               /\ call.outcome = "ok"
               /\ call.customers = <<>>
               /\ call.errors = <<NoCustomersMsg>>
               /\ customers = call.pre)
        /\ (call.input # <<>> /\ call.fault.site # "commit" =>
               call.outcome = "ok")
        /\ (call.input # <<>> /\ call.outcome = "ok" =>
               /\ Len(call.customers) + Len(call.errors) = Len(call.input)
               /\ \E S \in SUBSET DOMAIN call.input :
                     LET acc == InOrder(S)
                         rej == InOrder(DOMAIN call.input \ S)
                     IN  /\ call.customers = RowsAt(call.input, acc)
                         /\ Len(call.errors) = Len(rej)
                         /\ \A k \in DOMAIN rej :
                               call.errors[k] \in
                                 {DuplicateMsg(call.input[rej[k]].email)} \cup
                                 {ErrorCreatingMsg(call.input[rej[k]].email, t) :
                                     t \in FaultTexts})

\* A batch in which an insert faulted after an earlier success.
C6_Witness ==
    /\ IsBulk
    /\ call.faulted
    /\ call.fault.site = "create"
    /\ call.customers # <<>>
    /\ Len(call.errors) >= 2

\* C10 as claimed: createCustomer persists only when name and e-mail are
\* non-empty, the e-mail is new and the phone is absent or matches the
\* format; otherwise it is rejected and the store is unchanged.
C10_OnlyNonEmpty ==
    IsCreateCustomer =>
        \/ /\ call.input.name # ""
           /\ call.input.email # ""
           /\ call.input.email \notin EmailsOf(call.pre)
           /\ call.input.phone \in {None} \cup ValidPhones
        \/ (call.outcome = "raised" /\ customers = call.pre)

\* C10 as amended: createCustomer persists only when the e-mail is new and
\* the phone is absent, empty or matches the format (among the sample
\* phones: is one of ValidPhones); name and e-mail may be empty strings;
\* otherwise it is rejected and the store is unchanged; a call that
\* persists adds exactly the one customer.
C10_OnlyNewEmailAndPhone ==
    IsCreateCustomer =>
        /\ \/ /\ call.input.email \notin EmailsOf(call.pre)
              /\ call.input.phone \in {None, <<>>} \cup ValidPhones
           \/ (call.outcome = "raised" /\ customers = call.pre)
        /\ (call.outcome = "ok" =>
               customers = Append(call.pre, CustomerRow(call.input)))
        /\ (call.outcome = "raised" => customers = call.pre)

\* A customer with an empty name and an empty e-mail was persisted, and so
\* was, in another call, one with a well-formed phone.
C10_Witness ==
    /\ IsCreateCustomer
    /\ call.outcome = "ok"
    /\ call.input.phone \in ValidPhones
    /\ \E i \in DOMAIN call.pre :
          call.pre[i].name = "" /\ call.pre[i].email = ""

-----------------------------------------------------------------------------
(* CreateProduct.mutate                                                    *)

MaxRows == 3
MaxIds == 2

\* An optional integer: <<>> is None (the field was not sent), <<n>> is n.
NoInt == <<>>

PriceMsg == "Price must be positive"
StockMsg == "Stock cannot be negative"
NoneCompareText == "'<' not supported between instances of 'NoneType' and 'int'"
ProductCreatedMsg == "Product created successfully"

\* `input.stock or 0`
StockOrZero(stock) == IF stock = NoInt \/ stock[1] = 0 THEN 0 ELSE stock[1]

\* `input.stock < 0`, for a stock that is an integer.
NegativeStock(stock) == stock[1] < 0

\* The outcome of the handler on the Product table `rows`.  Comparing a
\* stock of None with 0 raises TypeError.
CreateProduct(rows, input) ==
    IF input.price <= 0
    THEN [outcome |-> "raised", error |-> PriceMsg, store |-> rows]
    ELSE IF input.stock = NoInt
    THEN [outcome |-> "raised", error |-> NoneCompareText, store |-> rows]
    ELSE IF NegativeStock(input.stock)
    THEN [outcome |-> "raised", error |-> StockMsg, store |-> rows]
    ELSE [outcome |-> "ok", error |-> ProductCreatedMsg,
          store |-> Append(rows, [name |-> input.name, price |-> input.price,
                                  stock |-> StockOrZero(input.stock)])]

-----------------------------------------------------------------------------
(* CreateOrder.mutate                                                      *)

NoProductsMsg == "At least one product must be selected."
OrderCreatedMsg == "Order created successfully!"
CustomerMissingMsg(id) == "Customer ID " \o ToString(id) \o " does not exist"
ProductMissingMsg(id) == "Product ID " \o ToString(id) \o " does not exist"

\* An optional order date: NoDate is None.
NoDate == "<None>"

\* `order_date or datetime.datetime.now()`
DateOrNow(date) == IF date = NoDate THEN "now" ELSE date

\* Customer.objects.get(id=customer_id) finds a row.
CustomerFound(rows, id) == id \in DOMAIN rows

\* Product.objects.get(id=pid) finds a row.
ProductFound(rows, pid) == pid \in DOMAIN rows

\* The positions of product_ids whose id names no product.
MissingAt(rows, ids) == {k \in DOMAIN ids : ~ProductFound(rows, ids[k])}

\* The loop `for pid in product_ids` stops at the first missing id.
FirstMissing(rows, ids) ==
    ids[CHOOSE k \in MissingAt(rows, ids) :
            \A m \in MissingAt(rows, ids) : k <= m]

\* total_amount after the loop: one price per entry of product_ids.
RECURSIVE TotalAmount(_, _)
TotalAmount(rows, ids) ==
    IF ids = <<>> THEN 0
    ELSE rows[Head(ids)].price + TotalAmount(rows, Tail(ids))

\* order.products.set(products): the many-to-many relation holds one link
\* per distinct product.
LinkedProducts(ids) == {ids[k] : k \in DOMAIN ids}

\* A mutant of CreateOrder: the order is created before the products are
\* looked up, and a missing product raises after it.
CreateOrderEarly(custRows, prodRows, orderRows, input) ==
    IF ~CustomerFound(custRows, input.customer_id)
    THEN [outcome |-> "raised",
          error |-> CustomerMissingMsg(input.customer_id), store |-> orderRows]
    ELSE IF input.product_ids = <<>>
    THEN [outcome |-> "raised", error |-> NoProductsMsg, store |-> orderRows]
    ELSE IF MissingAt(prodRows, input.product_ids) # {}
    THEN [outcome |-> "raised",
          error |-> ProductMissingMsg(FirstMissing(prodRows, input.product_ids)),
          store |-> Append(orderRows,
                           [customer |-> input.customer_id, total_amount |-> 0,
                            order_date |-> DateOrNow(input.order_date),
                            products |-> {}])]
    ELSE [outcome |-> "ok", error |-> OrderCreatedMsg,
          store |-> Append(orderRows,
                           [customer |-> input.customer_id,
                            total_amount |-> TotalAmount(prodRows, input.product_ids),
                            order_date |-> DateOrNow(input.order_date),
                            products |-> LinkedProducts(input.product_ids)])]

\* The outcome of the handler on the three tables: the response (or the
\* exception raised) and the Order table afterwards.
CreateOrder(custRows, prodRows, orderRows, input) ==
    IF ~CustomerFound(custRows, input.customer_id)
    THEN [outcome |-> "raised",
          error |-> CustomerMissingMsg(input.customer_id), store |-> orderRows]
    ELSE IF input.product_ids = <<>>
    THEN [outcome |-> "raised", error |-> NoProductsMsg, store |-> orderRows]
    ELSE IF MissingAt(prodRows, input.product_ids) # {}
    THEN [outcome |-> "raised",
          error |-> ProductMissingMsg(FirstMissing(prodRows, input.product_ids)),
          store |-> orderRows]
    ELSE [outcome |-> "ok", error |-> OrderCreatedMsg,
          store |-> Append(orderRows,
                           [customer |-> input.customer_id,
                            total_amount |-> TotalAmount(prodRows, input.product_ids),
                            order_date |-> DateOrNow(input.order_date),
                            products |-> LinkedProducts(input.product_ids)])]

-----------------------------------------------------------------------------
(* The catalogue and order service, one request at a time.                 *)

Prices == {-1, 0, 1, 2}
Stocks == {NoInt, <<-1>>, <<0>>, <<2>>}

\* The ProductInput objects a client sends: every price with a stock of 0,
\* and every stock with one price.
ProductInputs ==
    [name : {"Pen"}, price : Prices, stock : {<<0>>}]
        \cup [name : {"Pen"}, price : {1}, stock : Stocks]

\* The ids a client names: those of the rows there can be, and one more.
IdsNamed == 1..(MaxRows + 1)

OrderInputs ==
    [customer_id : {1, 2},
     product_ids : SeqsUpTo(IdsNamed, MaxIds),
     order_date : {NoDate, "2024-05-01"}]

\* A store with one customer, and no product and no order yet.
InitOrders ==
    /\ customers = <<[name |-> "Ann", email |-> "a@x.com", phone |-> <<>>]>>
    /\ products = <<>>
    /\ orders = <<>>
    /\ emailUnique \in BOOLEAN
    /\ call = Idle
    /\ procs = <<>>

CreateProductCall ==
    /\ call = Idle
    /\ Len(products) + Len(orders) < MaxRows
    /\ \E input \in ProductInputs :
         LET r == CreateProduct(products, input)
         IN  /\ products' = r.store
             /\ call' = [op |-> "create_product", input |-> input,
                         pre |-> products, outcome |-> r.outcome,
                         error |-> r.error]
    /\ UNCHANGED <<customers, orders, emailUnique, procs>>

CreateOrderCall ==
    /\ call = Idle
    /\ Len(products) + Len(orders) < MaxRows
    /\ \E input \in OrderInputs :
         LET r == CreateOrder(customers, products, orders, input)
         IN  /\ orders' = r.store
             /\ call' = [op |-> "create_order", input |-> input,
                         pre |-> orders, outcome |-> r.outcome,
                         error |-> r.error]
    /\ UNCHANGED <<customers, products, emailUnique, procs>>

NextOrders == CreateProductCall \/ CreateOrderCall \/ Respond

SpecOrders == InitOrders /\ [][NextOrders]_vars

-----------------------------------------------------------------------------
(* Properties of the catalogue and order service.                          *)

IsCreateProduct == call.op = "create_product"
IsCreateOrder == call.op = "create_order"

\* The sum of the prices of a set of products.
RECURSIVE PriceSum(_, _)
PriceSum(rows, ids) ==
    IF ids = {} THEN 0
    ELSE LET p == CHOOSE q \in ids : TRUE
         IN  rows[p].price + PriceSum(rows, ids \ {p})

\* C7: a createOrder call naming a missing customer, no product, or a
\* missing product at any position is rejected, the Order table (orders and
\* their product links) is unchanged, and the error names the missing id:
\* the customer's, or else the first missing product's.
C7_RejectedWhole ==
    (/\ IsCreateOrder
     /\ \/ call.input.customer_id \notin DOMAIN customers
        \/ call.input.product_ids = <<>>
        \/ \E k \in DOMAIN call.input.product_ids :
              call.input.product_ids[k] \notin DOMAIN products) =>
        /\ call.outcome = "raised"
        /\ orders = call.pre
        /\ call.error =
              IF call.input.customer_id \notin DOMAIN customers
              THEN "Customer ID " \o ToString(call.input.customer_id)
                       \o " does not exist"
              ELSE IF call.input.product_ids = <<>>
              THEN NoProductsMsg
              ELSE LET ids == call.input.product_ids
                       k == CHOOSE m \in DOMAIN ids :
                               /\ ids[m] \notin DOMAIN products
                               /\ \A n \in 1..(m - 1) : ids[n] \in DOMAIN products
                   IN  "Product ID " \o ToString(ids[k]) \o " does not exist"

\* An order naming an existing product and then a missing one, for an
\* existing customer, was rejected.
C7_Witness ==
    /\ IsCreateOrder
    /\ call.outcome = "raised"
    /\ call.input.customer_id \in DOMAIN customers
    /\ Len(call.input.product_ids) = 2
    /\ call.input.product_ids[1] \in DOMAIN products
    /\ call.input.product_ids[2] \notin DOMAIN products
    /\ call.error = "Product ID " \o ToString(call.input.product_ids[2])
                        \o " does not exist"

\* C8: after a successful createOrder the persisted order's total_amount is
\* the sum of the prices of the products linked to it, also when the id
\* list names a product more than once.
C8_TotalIsSumOfLinked ==
    (IsCreateOrder /\ call.outcome = "ok") =>
        LET o == orders[Len(orders)]
        IN  o.total_amount = PriceSum(products, o.products)

\* C9: createProduct persists a product exactly when price > 0 and the
\* stock is absent or >= 0; a rejected call persists nothing, and a product
\* created without a stock has stock 0.
C9_PersistsIffValid ==
    IsCreateProduct =>
        LET valid == /\ call.input.price > 0
                     /\ (call.input.stock = NoInt \/ call.input.stock[1] >= 0)
        IN  /\ (call.outcome = "ok") = valid
            /\ (call.outcome = "ok" =>
                   /\ Len(products) = Len(call.pre) + 1
                   /\ SubSeq(products, 1, Len(call.pre)) = call.pre
                   /\ (call.input.stock = NoInt =>
                          products[Len(products)].stock = 0))
            /\ (call.outcome = "raised" => products = call.pre)

-----------------------------------------------------------------------------
(* Two requests served concurrently.                                       *)
(*                                                                         *)
(* Each request runs its handler one database statement at a time.  A      *)
(* query sees the committed table and the rows its own transaction has     *)
(* written.  createCustomer inserts in autocommit mode; the inserts of     *)
(* bulkCreateCustomers are committed, or rolled back, when its atomic      *)
(* block ends.  The table declares email unique: an insert of an e-mail    *)
(* that another open transaction has written waits for that transaction to *)
(* end, and an insert of a committed e-mail raises IntegrityError.         *)

MaxConcBatch == 2

Procs == {1, 2}
SharedEmail == "a@x.com"
OwnEmail(p) == IF p = 1 THEN "p1@x.com" ELSE "p2@x.com"

\* What request p may carry: the e-mail both requests compete for, and an
\* e-mail of its own.
ConcCandidates(p) ==
    { [name |-> "Ann", email |-> SharedEmail, phone |-> None],
      [name |-> "Ann", email |-> OwnEmail(p), phone |-> None] }

ConcBatches(p) == SeqsUpTo(ConcCandidates(p), MaxConcBatch) \ {<<>>}

\* A request that has not yet run its first statement.
ProcStart(op, input) ==
    [op |-> op, input |-> input, pc |-> "check", i |-> 1,
     written |-> <<>>, created |-> <<>>, errors |-> <<>>,
     broken |-> FALSE, faulted |-> FALSE, outcome |-> "running"]

ProcStarts(p) ==
    {ProcStart("create_customer", c) : c \in ConcCandidates(p)}
        \cup {ProcStart("bulk_create_customers", b) : b \in ConcBatches(p)}

InitConc ==
    /\ customers = <<>>
    /\ products = <<>>
    /\ orders = <<>>
    /\ emailUnique = TRUE
    /\ call = Idle
    /\ procs \in [Procs -> UNION {ProcStarts(p) : p \in Procs}]
    /\ \A p \in Procs : procs[p] \in ProcStarts(p)

\* The candidate request p is working on.
Current(p) ==
    IF procs[p].op = "create_customer" THEN procs[p].input
    ELSE procs[p].input[procs[p].i]

\* The loop state of request p's transaction over the committed table.
Acc(p) ==
    [base |-> customers, written |-> procs[p].written,
     created |-> procs[p].created, errors |-> procs[p].errors,
     broken |-> procs[p].broken, faulted |-> procs[p].faulted]

\* Request p with the loop state `acc`, moved on to the next candidate.
Advance(p, acc) ==
    [procs[p] EXCEPT !.written = acc.written, !.created = acc.created,
                     !.errors = acc.errors, !.broken = acc.broken,
                     !.i = @ + 1,
                     !.pc = IF procs[p].i + 1 > Len(procs[p].input)
                            THEN "commit" ELSE "check"]

\* Another open transaction has written this e-mail and not yet ended.
WrittenByOther(p, email) ==
    \E q \in Procs \ {p} :
        /\ procs[q].pc \in {"check", "insert", "commit"}
        /\ email \in EmailsOf(procs[q].written)

\* createCustomer: the existence query and the phone check.
CustomerCheck(p) ==
    /\ procs[p].op = "create_customer"
    /\ procs[p].pc = "check"
    /\ procs' = [procs EXCEPT ![p] =
          IF EmailExists(customers, Current(p).email)
          THEN [@ EXCEPT !.pc = "done", !.outcome = "raised",
                         !.errors = <<EmailExistsMsg>>]
          ELSE IF PhoneRejected(Current(p).phone)
          THEN [@ EXCEPT !.pc = "done", !.outcome = "raised",
                         !.errors = <<InvalidPhoneMsg>>]
          ELSE [@ EXCEPT !.pc = "insert"]]
    /\ UNCHANGED <<customers, products, orders, emailUnique, call>>

\* createCustomer: Customer.objects.create, committed at once.
CustomerInsert(p) ==
    /\ procs[p].op = "create_customer"
    /\ procs[p].pc = "insert"
    /\ ~(emailUnique /\ WrittenByOther(p, Current(p).email))
    /\ IF UniqueViolation(customers, Current(p).email)
       THEN /\ procs' = [procs EXCEPT ![p] =
                   [@ EXCEPT !.pc = "done", !.outcome = "raised",
                             !.errors = <<IntegrityErrorText>>]]
            /\ UNCHANGED customers
       ELSE /\ customers' = Append(customers, CustomerRow(Current(p)))
            /\ procs' = [procs EXCEPT ![p] =
                   [@ EXCEPT !.pc = "done", !.outcome = "ok",
                             !.created = <<CustomerRow(Current(p))>>]]
    /\ UNCHANGED <<products, orders, emailUnique, call>>

\* bulkCreateCustomers: the existence query of the current candidate.
BulkCheck(p) ==
    /\ procs[p].op = "bulk_create_customers"
    /\ procs[p].pc = "check"
    /\ procs' = [procs EXCEPT ![p] =
          IF procs[p].broken
          THEN Advance(p, OnException(Acc(p), Current(p),
                                      BrokenTransactionText, TRUE))
          ELSE IF EmailExists(Visible(Acc(p)), Current(p).email)
          THEN Advance(p, OnDuplicate(Acc(p), Current(p)))
          ELSE [@ EXCEPT !.pc = "insert"]]
    /\ UNCHANGED <<customers, products, orders, emailUnique, call>>

\* bulkCreateCustomers: Customer.objects.create of the current candidate.
BulkInsert(p) ==
    /\ procs[p].op = "bulk_create_customers"
    /\ procs[p].pc = "insert"
    /\ ~(emailUnique /\ WrittenByOther(p, Current(p).email))
    /\ procs' = [procs EXCEPT ![p] =
          IF UniqueViolation(customers \o procs[p].written, Current(p).email)
          THEN Advance(p, OnException(Acc(p), Current(p),
                                      IntegrityErrorText, TRUE))
          ELSE Advance(p, [Acc(p) EXCEPT
                              !.written = Append(@, CustomerRow(Current(p))),
                              !.created = Append(@, CustomerRow(Current(p)))])]
    /\ UNCHANGED <<customers, products, orders, emailUnique, call>>

\* bulkCreateCustomers: the atomic block ends, and the handler returns.
BulkEnd(p) ==
    /\ procs[p].op = "bulk_create_customers"
    /\ procs[p].pc = "commit"
    /\ customers' = IF procs[p].broken THEN customers
                    ELSE customers \o procs[p].written
    /\ procs' = [procs EXCEPT ![p] = [@ EXCEPT !.pc = "done", !.outcome = "ok"]]
    /\ UNCHANGED <<products, orders, emailUnique, call>>

NextConc ==
    \E p \in Procs :
        \/ CustomerCheck(p)
        \/ CustomerInsert(p)
        \/ BulkCheck(p)
        \/ BulkInsert(p)
        \/ BulkEnd(p)

SpecConc == InitConc /\ [][NextConc]_vars

-----------------------------------------------------------------------------
(* Properties of concurrent requests.                                      *)

\* Request p creates a customer with the shared e-mail.
Competes(p) ==
    IF procs[p].op = "create_customer"
    THEN procs[p].input.email = SharedEmail
    ELSE \E k \in DOMAIN procs[p].input : procs[p].input[k].email = SharedEmail

\* Request p has ended and the shared e-mail's row is not one it persisted.
Lost(p) ==
    /\ procs[p].pc = "done"
    /\ ~(/\ SharedEmail \in EmailsOf(procs[p].created)
         /\ ~procs[p].broken
         /\ procs[p].outcome = "ok")

\* The errors by which a request reports that the shared e-mail is taken.
DuplicateKeyErrors ==
    { EmailExistsMsg, IntegrityErrorText, DuplicateMsg(SharedEmail),
      ErrorCreatingMsg(SharedEmail, IntegrityErrorText) }

\* C5: when two requests create a customer with the same e-mail, however
\* their queries and inserts interleave, at most one customer with that
\* e-mail is persisted, and a request that ended without persisting it
\* reports a duplicate-key error for it.
C5_OneWinnerLoserReports ==
    /\ Cardinality({i \in DOMAIN customers :
                       customers[i].email = SharedEmail}) <= 1
    /\ \A p \in Procs :
          (Competes(p) /\ Lost(p)) =>
              \E k \in DOMAIN procs[p].errors :
                  procs[p].errors[k] \in DuplicateKeyErrors

\* Both requests passed their existence query before either insert was
\* committed, one persisted the e-mail, and the other, a bulk request, was
\* refused by the table.
C5_Witness ==
    /\ \A p \in Procs : Competes(p) /\ procs[p].pc = "done"
    /\ Cardinality({i \in DOMAIN customers :
                       customers[i].email = SharedEmail}) = 1
    /\ \E p \in Procs :
          /\ procs[p].op = "bulk_create_customers"
          /\ Lost(p)
          /\ \E k \in DOMAIN procs[p].errors :
                procs[p].errors[k] =
                    ErrorCreatingMsg(SharedEmail, IntegrityErrorText)

=============================================================================
